---- MODULE Spec2Model ----
(***************************************************************************)
(* TADB energy-matrix API: the three tables of sql/create.sql, the Go      *)
(* repository and handlers that write them, and the stored procedures and  *)
(* analytical functions of the SQL scripts.                                *)
(*                                                                         *)
(* The repository's statements name the tables types / generators /        *)
(* productions; the only DDL of the project is sql/create.sql (core.type,  *)
(* core.generator, core.production, reached through search_path = core),   *)
(* so every statement is given the constraints of that schema.             *)
(***************************************************************************)
EXTENDS Integers, Sequences, FiniteSets, TLC

VARIABLES types, generators, productions, resp, sessions

vars == <<types, generators, productions, resp, sessions>>

----------------------------------------------------------------------------
(* Bounds of the model.                                                    *)

(* Rows the production table of the model can hold.                        *)
MaxProds == 2

(* The UUIDs of the model: the ids a table can give its rows.              *)
TypeIds == {1, 2}
GenIds == {1, 2}
ProdIds == 1..MaxProds

(* The calendar dates the write requests of the model carry.               *)
Dates == {1, 2}

(* The nil UUID: a well-formed id that identifies no row.                  *)
NoId == 0

----------------------------------------------------------------------------
(* Values.                                                                 *)

(* An optional value: {} is absent (Go nil pointer, SQL NULL), {v} is v.   *)
Opt(S) == {{}} \cup {{x} : x \in S}
Val(o) == CHOOSE x \in o : TRUE

(* SQL COALESCE($n, column).                                               *)
Coalesce(o, old) == IF o = {} THEN old ELSE Val(o)

(* A date as a request carries it: text. BadDate is a text that is no      *)
(* calendar date ("2025-02-30"); every other date of the model is the text *)
(* of that date.                                                           *)
BadDate == -1

(* The engine's input conversion of a text parameter to DATE: {} when the  *)
(* text is no date (invalid_datetime_format).                              *)
date_in(text) == IF text = BadDate THEN {} ELSE {text}

(* An id as a request carries it: text. BadId is a text that is no UUID     *)
(* ("abc"); every other id text of the model is the text of that id.       *)
BadId == -1

(* A parser that takes every text for a UUID.                             *)
uuid_ParseAnything(text) == {text}

(* uuid.Parse: {} when the text is no UUID.                                *)
uuid_Parse(text) == IF text = BadId THEN {} ELSE {text}

(* SQL lower() on the names of the model.                                  *)
lower(n) == IF n = "Solar" THEN "solar" ELSE IF n = "Wind" THEN "wind" ELSE n

DB == [types |-> types, generators |-> generators, productions |-> productions]

Ids(rows) == {r.id : r \in rows}

(* uuid.New() / uuid_generate_v4(): an identifier no row of the table has; *)
(* the model takes the least one of its id space.                          *)
NewId(space, rows) ==
    LET free == space \ Ids(rows)
    IN  IF free = {} THEN NoId ELSE CHOOSE i \in free : \A j \in free : i <= j

HasFree(space, rows) == space \ Ids(rows) # {}

----------------------------------------------------------------------------
(* Constraints of sql/create.sql, as the engine enforces them on a write.  *)

(* core.type: name varchar(20) UNIQUE NOT NULL. The unique index compares  *)
(* the stored strings, so "Solar" and "solar" are different keys.          *)
TypeNameTaken(ts, self, name) == \E t \in ts : t.id # self /\ t.name = name

(* fk_type: generator.type REFERENCES core.type(id).                       *)
TypeExists(ts, id) == \E t \in ts : t.id = id

(* fk_generator: production.generator_id REFERENCES core.generator(id).    *)
GeneratorExists(gs, id) == \E g \in gs : g.id = id

(* uk_generator_date counting the row being written against itself.       *)
PeriodTakenBySelfToo(ps, self, gen, date) ==
    \E p \in ps : p.generatorId = gen /\ p.date = date

(* uk_generator_date: UNIQUE(generator_id, date).                          *)
PeriodTaken(ps, self, gen, date) ==
    \E p \in ps : p.id # self /\ p.generatorId = gen /\ p.date = date

(* fk_type ... ON DELETE CASCADE: the generators left when types die.      *)
CascadeGenerators(gs, ts) == {g \in gs : TypeExists(ts, g.typeId)}

(* fk_generator without ON DELETE CASCADE taking effect.                   *)
CascadeProductionsKeepAll(ps, gs) == ps

(* fk_generator ... ON DELETE CASCADE.                                     *)
CascadeProductions(ps, gs) == {p \in ps : GeneratorExists(gs, p.generatorId)}

(* The result of a repository call or of a procedure call.                 *)
Result(err, id, db) == [err |-> err, id |-> id, db |-> db]

----------------------------------------------------------------------------
(* postgresRepository: types.                                              *)

(* INSERT INTO types (id, name, description, isrenuevable, ...).           *)
RepoCreateType(db, req) ==
    LET id == NewId(TypeIds, db.types)
    IN  IF TypeNameTaken(db.types, NoId, req.name)
        THEN Result("unique_violation", NoId, db)
        ELSE Result("none", id,
                    [db EXCEPT !.types = @ \cup
                        {[id |-> id, name |-> req.name,
                          description |-> req.description,
                          isRenewable |-> req.isRenewable]}])

(* UPDATE types SET name = $2, description = $3, isrenuevable = $4         *)
(* WHERE id = $1 RETURNING ...: every column is assigned the request's     *)
(* field, "" for an omitted string and NULL for a nil *bool.               *)
RepoUpdateType(db, id, req) ==
    IF ~TypeExists(db.types, id) THEN Result("no_rows", NoId, db)
    ELSE IF req.isRenewable = {} THEN Result("not_null_violation", NoId, db)
    ELSE IF TypeNameTaken(db.types, id, req.name)
    THEN Result("unique_violation", NoId, db)
    ELSE Result("none", id,
                [db EXCEPT !.types =
                    {t \in @ : t.id # id} \cup
                    {[id |-> id, name |-> req.name,
                      description |-> req.description,
                      isRenewable |-> Val(req.isRenewable)]}])

(* DELETE FROM types WHERE id = $1; RowsAffected() = 0 is sql.ErrNoRows.   *)
RepoDeleteType(db, id) ==
    IF ~TypeExists(db.types, id) THEN Result("no_rows", NoId, db)
    ELSE LET ts == {t \in db.types : t.id # id}
             gs == CascadeGenerators(db.generators, ts)
         IN  Result("none", id,
                    [types |-> ts, generators |-> gs,
                     productions |-> CascadeProductions(db.productions, gs)])

----------------------------------------------------------------------------
(* postgresRepository: generators.                                         *)

(* SELECT ... FROM generators g JOIN types t ON g.type = t.id WHERE g.id.  *)
RepoGetGeneratorByID(db, id) ==
    IF \E g \in db.generators : g.id = id /\ TypeExists(db.types, g.typeId)
    THEN Result("none", id, db)
    ELSE Result("no_rows", NoId, db)

(* RepoCreateGenerator over a generators table without fk_type.            *)
RepoCreateGeneratorNoForeignKey(db, req) ==
    LET id == NewId(GenIds, db.generators)
    IN  Result("none", id,
               [db EXCEPT !.generators = @ \cup
                   {[id |-> id, typeId |-> req.typeId, capacity |-> req.capacity]}])

(* INSERT INTO generators (id, type, capacity, ...), then GetGeneratorByID. *)
RepoCreateGenerator(db, req) ==
    LET id == NewId(GenIds, db.generators)
        db2 == [db EXCEPT !.generators = @ \cup
                   {[id |-> id, typeId |-> req.typeId, capacity |-> req.capacity]}]
    IN  IF ~TypeExists(db.types, req.typeId)
        THEN Result("foreign_key_violation", NoId, db)
        ELSE RepoGetGeneratorByID(db2, id)

(* RepoUpdateGenerator over a generators table without fk_type.            *)
RepoUpdateGeneratorNoForeignKey(db, id, req) ==
    LET old == CHOOSE g \in db.generators : g.id = id
        new == [id |-> id,
                typeId |-> Coalesce(req.typeId, old.typeId),
                capacity |-> Coalesce(req.capacity, old.capacity)]
    IN  IF ~GeneratorExists(db.generators, id) THEN Result("no_rows", NoId, db)
        ELSE Result("none", id, [db EXCEPT !.generators = {g \in @ : g.id # id} \cup {new}])

(* UPDATE generators SET type = COALESCE($2, type),                        *)
(* capacity = COALESCE($3, capacity) WHERE id = $1, then GetGeneratorByID. *)
(* Exec reports no error when no row matches.                              *)
RepoUpdateGenerator(db, id, req) ==
    LET old == CHOOSE g \in db.generators : g.id = id
        new == [id |-> id,
                typeId |-> Coalesce(req.typeId, old.typeId),
                capacity |-> Coalesce(req.capacity, old.capacity)]
        db2 == [db EXCEPT !.generators = {g \in @ : g.id # id} \cup {new}]
    IN  IF ~GeneratorExists(db.generators, id) THEN RepoGetGeneratorByID(db, id)
        ELSE IF ~TypeExists(db.types, new.typeId)
        THEN Result("foreign_key_violation", NoId, db)
        ELSE RepoGetGeneratorByID(db2, id)

(* DELETE FROM generators WHERE id = $1.                                   *)
RepoDeleteGenerator(db, id) ==
    IF ~GeneratorExists(db.generators, id) THEN Result("no_rows", NoId, db)
    ELSE LET gs == {g \in db.generators : g.id # id}
         IN  Result("none", id,
                    [db EXCEPT !.generators = gs,
                               !.productions = CascadeProductions(@, gs)])

----------------------------------------------------------------------------
(* postgresRepository: productions.                                        *)

(* SELECT ... FROM productions p JOIN generators g ... JOIN types t ...    *)
RepoGetProductionByID(db, id) ==
    IF \E p \in db.productions : /\ p.id = id
          /\ \E g \in db.generators : g.id = p.generatorId /\ TypeExists(db.types, g.typeId)
    THEN Result("none", id, db)
    ELSE Result("no_rows", NoId, db)

(* RepoCreateProduction over a productions table without                  *)
(* uk_generator_date.                                                      *)
RepoCreateProductionNoUnique(db, req) ==
    LET id == NewId(ProdIds, db.productions)
    IN  IF ~GeneratorExists(db.generators, req.generatorId)
        THEN Result("foreign_key_violation", NoId, db)
        ELSE Result("none", id,
                    [db EXCEPT !.productions = @ \cup
                        {[id |-> id, generatorId |-> req.generatorId,
                          date |-> req.date, productionMW |-> req.productionMW]}])

(* INSERT INTO productions (id, generator_id, date, production_mw, ...),   *)
(* then GetProductionByID.                                                 *)
RepoCreateProduction(db, req) ==
    LET id == NewId(ProdIds, db.productions)
        db2 == [db EXCEPT !.productions = @ \cup
                   {[id |-> id, generatorId |-> req.generatorId,
                     date |-> req.date, productionMW |-> req.productionMW]}]
    IN  IF date_in(req.date) = {}
        THEN Result("invalid_datetime_format", NoId, db)
        ELSE IF PeriodTaken(db.productions, NoId, req.generatorId, req.date)
        THEN Result("unique_violation", NoId, db)
        ELSE IF ~GeneratorExists(db.generators, req.generatorId)
        THEN Result("foreign_key_violation", NoId, db)
        ELSE RepoGetProductionByID(db2, id)

(* RepoUpdateProduction assigning the request's date as it is, the way     *)
(* UpdateType assigns its columns: an absent date becomes the zero date.   *)
RepoUpdateProductionOverwrite(db, id, req) ==
    LET old == CHOOSE p \in db.productions : p.id = id
        new == [id |-> id,
                generatorId |-> Coalesce(req.generatorId, old.generatorId),
                date |-> IF req.date = {} THEN 0 ELSE Val(req.date),
                productionMW |-> Coalesce(req.productionMW, old.productionMW)]
        db2 == [db EXCEPT !.productions = {p \in @ : p.id # id} \cup {new}]
    IN  IF ~\E p \in db.productions : p.id = id THEN RepoGetProductionByID(db, id)
        ELSE IF PeriodTaken(db.productions, id, new.generatorId, new.date)
        THEN Result("unique_violation", NoId, db)
        ELSE IF ~GeneratorExists(db.generators, new.generatorId)
        THEN Result("foreign_key_violation", NoId, db)
        ELSE RepoGetProductionByID(db2, id)

(* UPDATE productions SET generator_id = COALESCE($2, generator_id),       *)
(* date = COALESCE($3, date), production_mw = COALESCE($4, production_mw)  *)
(* WHERE id = $1, then GetProductionByID.                                  *)
RepoUpdateProduction(db, id, req) ==
    LET old == CHOOSE p \in db.productions : p.id = id
        new == [id |-> id,
                generatorId |-> Coalesce(req.generatorId, old.generatorId),
                date |-> Coalesce(req.date, old.date),
                productionMW |-> Coalesce(req.productionMW, old.productionMW)]
        db2 == [db EXCEPT !.productions = {p \in @ : p.id # id} \cup {new}]
    IN  IF req.date # {} /\ date_in(Val(req.date)) = {}
        THEN Result("invalid_datetime_format", NoId, db)
        ELSE IF ~\E p \in db.productions : p.id = id THEN RepoGetProductionByID(db, id)
        ELSE IF PeriodTaken(db.productions, id, new.generatorId, new.date)
        THEN Result("unique_violation", NoId, db)
        ELSE IF ~GeneratorExists(db.generators, new.generatorId)
        THEN Result("foreign_key_violation", NoId, db)
        ELSE RepoGetProductionByID(db2, id)

(* A DELETE that reports success and leaves the row in place.             *)
RepoDeleteProductionKeepsRow(db, id) ==
    IF ~\E p \in db.productions : p.id = id THEN Result("no_rows", NoId, db)
    ELSE Result("none", id, db)

(* DELETE FROM productions WHERE id = $1.                                  *)
RepoDeleteProduction(db, id) ==
    IF ~\E p \in db.productions : p.id = id THEN Result("no_rows", NoId, db)
    ELSE Result("none", id, [db EXCEPT !.productions = {p \in @ : p.id # id}])

----------------------------------------------------------------------------
(* Stored procedures of the SQL scripts. RAISE EXCEPTION aborts the call   *)
(* and leaves the tables as they were.                                     *)

(* core.insert_type(p_name, p_description, p_is_renuevable).               *)
insert_type(db, p_name, p_description, p_is_renuevable) ==
    IF p_name = "" \/ p_description = ""
    THEN Result("null_or_empty", NoId, db)
    ELSE IF \E t \in db.types : lower(t.name) = lower(p_name)
    THEN Result("same_name", NoId, db)
    ELSE LET id == NewId(TypeIds, db.types)
         IN  Result("none", id,
                    [db EXCEPT !.types = @ \cup
                        {[id |-> id, name |-> p_name, description |-> p_description,
                          isRenewable |-> p_is_renuevable]}])

(* core.update_type(p_type_id, p_name, p_description, p_is_renuevable): the *)
(* row must exist, the texts be non-empty and no other row hold the name,  *)
(* letter case ignored; then the UPDATE, which a NULL flag fails.          *)
update_type(db, p_type_id, p_name, p_description, p_is_renuevable) ==
    IF ~TypeExists(db.types, p_type_id)
    THEN Result("type_not_exist", NoId, db)
    ELSE IF p_name = "" \/ p_description = ""
    THEN Result("null_or_empty", NoId, db)
    ELSE IF \E t \in db.types : lower(t.name) = lower(p_name) /\ t.id # p_type_id
    THEN Result("same_name", NoId, db)
    ELSE IF p_is_renuevable = {}
    THEN Result("not_null_violation", NoId, db)
    ELSE Result("none", p_type_id,
                [db EXCEPT !.types =
                    {t \in @ : t.id # p_type_id} \cup
                    {[id |-> p_type_id, name |-> p_name, description |-> p_description,
                      isRenewable |-> Val(p_is_renuevable)]}])

(* core.insert_generator(p_generator_type, p_generator_capacity).          *)
insert_generator(db, p_generator_type, p_generator_capacity) ==
    IF p_generator_capacity <= 0
    THEN Result("capacity_not_positive", NoId, db)
    ELSE IF ~\E t \in db.types : t.id = p_generator_type
    THEN Result("type_not_exist", NoId, db)
    ELSE LET id == NewId(GenIds, db.generators)
         IN  Result("none", id,
                    [db EXCEPT !.generators = @ \cup
                        {[id |-> id, typeId |-> p_generator_type,
                          capacity |-> p_generator_capacity]}])

(* core.insert_production(p_generator_id, p_date, p_production_mw).        *)
insert_production(db, p_generator_id, p_date, p_production_mw) ==
    IF p_production_mw < 0
    THEN Result("negative_production", NoId, db)
    ELSE IF ~\E g \in db.generators : g.id = p_generator_id
    THEN Result("generator_not_exist", NoId, db)
    ELSE IF \E p \in db.productions : p.generatorId = p_generator_id /\ p.date = p_date
    THEN Result("production_exists", NoId, db)
    ELSE LET id == NewId(ProdIds, db.productions)
         IN  Result("none", id,
                    [db EXCEPT !.productions = @ \cup
                        {[id |-> id, generatorId |-> p_generator_id, date |-> p_date,
                          productionMW |-> p_production_mw]}])

----------------------------------------------------------------------------
(* Request binding (gin ShouldBindJSON with the validator tags of the      *)
(* request structs). "required" rejects the zero value of the field's      *)
(* type; "omitempty" on a pointer skips only the nil pointer.              *)

NameMax == 20
DescriptionMax == 80

(* CreateTypeRequest: name required,max=20; description required,max=80.   *)
BindCreateType(req) ==
    /\ req.name # "" /\ Len(req.name) <= NameMax
    /\ req.description # "" /\ Len(req.description) <= DescriptionMax

(* UpdateTypeRequest: name omitempty,max=20; description omitempty,max=80. *)
BindUpdateType(req) ==
    /\ Len(req.name) <= NameMax
    /\ Len(req.description) <= DescriptionMax

(* CreateGeneratorRequest: typeId required; capacity required,gt=0.        *)
BindCreateGenerator(req) == req.capacity > 0

(* UpdateGeneratorRequest with omitempty taking a pointer to 0 for empty.  *)
BindUpdateGeneratorZeroIsEmpty(req) ==
    (req.capacity # {} /\ Val(req.capacity) # 0) => Val(req.capacity) > 0

(* UpdateGeneratorRequest: capacity omitempty,gt=0 on *float64.            *)
BindUpdateGenerator(req) == req.capacity # {} => Val(req.capacity) > 0

(* CreateProductionRequest: generatorId, date required;                    *)
(* productionMw required,gte=0 on float64.                                 *)
BindCreateProduction(req) == req.productionMW # 0 /\ req.productionMW >= 0

(* UpdateProductionRequest: productionMw omitempty,gte=0 on *float64.      *)
BindUpdateProduction(req) == req.productionMW # {} => Val(req.productionMW) >= 0

----------------------------------------------------------------------------
(* Handlers: the HTTP status each handler answers with.                    *)

StatusOK == 200
StatusCreated == 201
StatusNoContent == 204
StatusBadRequest == 400
StatusNotFound == 404
StatusInternalServerError == 500

(* The JSON body of an answer, as its top-level members. utils.ErrorResponse *)
(* writes the Response envelope; a successful POST, GET or PUT writes the   *)
(* record itself with c.JSON, of which the model keeps the id; a successful *)
(* DELETE writes c.Status and no body.                                      *)
ErrorResponse(message) == [status |-> "error", error |-> message]

Record(id) == [id |-> id]

NoBody == [member \in {} |-> ""]

Response(status, r) ==
    [status |-> status, err |-> r.err, id |-> r.id, db |-> r.db,
     body |-> IF status \in {StatusOK, StatusCreated} THEN Record(r.id)
              ELSE IF status = StatusNoContent THEN NoBody
              ELSE ErrorResponse(r.err)]

BadRequest(db) ==
    [status |-> StatusBadRequest, err |-> "bind", id |-> NoId, db |-> db,
     body |-> ErrorResponse("bind")]

(* POST handlers: 400 on a binding error, 500 on any repository error.     *)
CreateReply(r) ==
    IF r.err # "none" THEN Response(StatusInternalServerError, r)
    ELSE Response(StatusCreated, r)

(* PUT handlers without the sql.ErrNoRows case.                           *)
UpdateReplyNoNotFound(r) ==
    IF r.err # "none" THEN Response(StatusInternalServerError, r)
    ELSE Response(StatusOK, r)

(* PUT handlers: 404 on sql.ErrNoRows, 500 on any other repository error.  *)
UpdateReply(r) ==
    IF r.err = "no_rows" THEN Response(StatusNotFound, r)
    ELSE IF r.err # "none" THEN Response(StatusInternalServerError, r)
    ELSE Response(StatusOK, r)

(* DELETE handlers without the sql.ErrNoRows case.                        *)
DeleteReplyNoNotFound(r) ==
    IF r.err # "none" THEN Response(StatusInternalServerError, r)
    ELSE Response(StatusNoContent, r)

(* DELETE handlers: 404 on sql.ErrNoRows, 500 on any other error.          *)
DeleteReply(r) ==
    IF r.err = "no_rows" THEN Response(StatusNotFound, r)
    ELSE IF r.err # "none" THEN Response(StatusInternalServerError, r)
    ELSE Response(StatusNoContent, r)

HandleCreateType(db, req) ==
    IF ~BindCreateType(req) THEN BadRequest(db) ELSE CreateReply(RepoCreateType(db, req))

HandleUpdateType(db, id, req) ==
    IF uuid_Parse(id) = {} \/ ~BindUpdateType(req) THEN BadRequest(db)
    ELSE UpdateReply(RepoUpdateType(db, Val(uuid_Parse(id)), req))

HandleDeleteType(db, id) ==
    IF uuid_Parse(id) = {} THEN BadRequest(db)
    ELSE DeleteReply(RepoDeleteType(db, Val(uuid_Parse(id))))

HandleCreateGenerator(db, req) ==
    IF ~BindCreateGenerator(req) THEN BadRequest(db)
    ELSE CreateReply(RepoCreateGenerator(db, req))

HandleUpdateGenerator(db, id, req) ==
    IF uuid_Parse(id) = {} \/ ~BindUpdateGenerator(req) THEN BadRequest(db)
    ELSE UpdateReply(RepoUpdateGenerator(db, Val(uuid_Parse(id)), req))

HandleDeleteGenerator(db, id) ==
    IF uuid_Parse(id) = {} THEN BadRequest(db)
    ELSE DeleteReply(RepoDeleteGenerator(db, Val(uuid_Parse(id))))

HandleCreateProduction(db, req) ==
    IF ~BindCreateProduction(req) THEN BadRequest(db)
    ELSE CreateReply(RepoCreateProduction(db, req))

HandleUpdateProduction(db, id, req) ==
    IF uuid_Parse(id) = {} \/ ~BindUpdateProduction(req) THEN BadRequest(db)
    ELSE UpdateReply(RepoUpdateProduction(db, Val(uuid_Parse(id)), req))

HandleDeleteProduction(db, id) ==
    IF uuid_Parse(id) = {} THEN BadRequest(db)
    ELSE DeleteReply(RepoDeleteProduction(db, Val(uuid_Parse(id))))

----------------------------------------------------------------------------
(* The state machine: one action per request handler. resp is the answer   *)
(* to the last request, with the request it answers.                       *)

(* How many rows of each table a request removed.                          *)
Gone(old, new) ==
    [types |-> Cardinality(old.types \ new.types),
     generators |-> Cardinality(old.generators \ new.generators),
     productions |-> Cardinality(old.productions \ new.productions)]

(* The tables after the request; a request served alone leaves the         *)
(* concurrent sessions as they are.                                        *)
Commit(r) ==
    /\ types' = r.db.types
    /\ generators' = r.db.generators
    /\ productions' = r.db.productions
    /\ sessions' = sessions

Answer(op, req, r) ==
    [op |-> op, req |-> req, status |-> r.status, err |-> r.err, id |-> r.id,
     body |-> r.body, gone |-> Gone(DB, r.db)]

(* The concurrent database sessions and requests of the model, each at    *)
(* most one call: idle, then between its checks and its INSERT, then done. *)
Sessions == {1, 2}

Idle == [pc |-> "idle", op |-> "none", req |-> {}, err |-> "none"]

NoSessions == [s \in Sessions |-> Idle]

NoRequest ==
    [op |-> "none", req |-> {}, status |-> 0, err |-> "none", id |-> NoId,
     body |-> NoBody, gone |-> [types |-> 0, generators |-> 0, productions |-> 0]]

Init ==
    /\ types = {}
    /\ generators = {}
    /\ productions = {}
    /\ resp = NoRequest
    /\ sessions = NoSessions

(* A table of the model holds as many rows as its id space has ids: an     *)
(* insert that would succeed needs a free id.                              *)
Fits(space, rows, r) == r.err # "none" \/ HasFree(space, rows)

CreateType(req) ==
    LET r == HandleCreateType(DB, req)
    IN  Fits(TypeIds, types, r) /\ Commit(r) /\ resp' = Answer("CreateType", req, r)

UpdateType(id, req) ==
    LET r == HandleUpdateType(DB, id, req)
    IN  /\ Commit(r)
        /\ resp' = Answer("UpdateType", [id |-> id, body |-> req], r)

DeleteType(id) ==
    LET r == HandleDeleteType(DB, id)
    IN  /\ Commit(r)
        /\ resp' = Answer("DeleteType", [id |-> id], r)

CreateGenerator(req) ==
    LET r == HandleCreateGenerator(DB, req)
    IN  Fits(GenIds, generators, r) /\ Commit(r) /\ resp' = Answer("CreateGenerator", req, r)

UpdateGenerator(id, req) ==
    LET r == HandleUpdateGenerator(DB, id, req)
    IN  /\ Commit(r)
        /\ resp' = Answer("UpdateGenerator", [id |-> id, body |-> req], r)

DeleteGenerator(id) ==
    LET r == HandleDeleteGenerator(DB, id)
    IN  /\ Commit(r)
        /\ resp' = Answer("DeleteGenerator", [id |-> id], r)

CreateProduction(req) ==
    LET r == HandleCreateProduction(DB, req)
    IN  Fits(ProdIds, productions, r) /\ Commit(r) /\ resp' = Answer("CreateProduction", req, r)

UpdateProduction(id, req) ==
    LET r == HandleUpdateProduction(DB, id, req)
    IN  /\ Commit(r)
        /\ resp' = Answer("UpdateProduction", [id |-> id, body |-> req], r)

DeleteProduction(id) ==
    LET r == HandleDeleteProduction(DB, id)
    IN  /\ Commit(r)
        /\ resp' = Answer("DeleteProduction", [id |-> id], r)

(* CALL core.insert_type(...) and its siblings, from a database session.   *)
Called(r) == [status |-> 0, err |-> r.err, id |-> r.id, db |-> r.db, body |-> NoBody]

CallInsertType(req) ==
    LET r == insert_type(DB, req.name, req.description, req.isRenewable)
    IN  Fits(TypeIds, types, r) /\ Commit(Called(r)) /\ resp' = Answer("insert_type", req, Called(r))

CallUpdateType(id, req) ==
    LET r == update_type(DB, id, req.name, req.description, req.isRenewable)
    IN  Commit(Called(r)) /\ resp' = Answer("update_type", [id |-> id, body |-> req], Called(r))

CallInsertGenerator(req) ==
    LET r == insert_generator(DB, req.typeId, req.capacity)
    IN  Fits(GenIds, generators, r) /\ Commit(Called(r)) /\ resp' = Answer("insert_generator", req, Called(r))

CallInsertProduction(req) ==
    LET r == insert_production(DB, req.generatorId, req.date, req.productionMW)
    IN  Fits(ProdIds, productions, r) /\ Commit(Called(r)) /\ resp' = Answer("insert_production", req, Called(r))

----------------------------------------------------------------------------
(* GET /types?renewable=...                                                *)

(* strconv.ParseBool: the strings it takes for true and for false; any     *)
(* other string is a syntax error.                                         *)
ParseBoolTrue == {"1", "t", "T", "TRUE", "true", "True"}
ParseBoolFalse == {"0", "f", "F", "FALSE", "false", "False"}

ParseBool(str) ==
    IF str \in ParseBoolTrue THEN [err |-> "none", value |-> TRUE]
    ELSE IF str \in ParseBoolFalse THEN [err |-> "none", value |-> FALSE]
    ELSE [err |-> "syntax", value |-> FALSE]

(* SELECT ... FROM types [WHERE isrenuevable = $1] ORDER BY name. The rows *)
(* are kept as a set: their order is the database's collation of name.     *)
RepoGetAllTypes(db, isRenewable) ==
    {t \in db.types : isRenewable = {} \/ t.isRenewable = Val(isRenewable)}

(* TypeHandler.GetAllTypes: queried tells whether the repository was       *)
(* called.                                                                 *)
HandleGetAllTypes(db, renewableParam) ==
    IF renewableParam # "" /\ ParseBool(renewableParam).err # "none"
    THEN [status |-> StatusBadRequest, err |-> "bind", queried |-> FALSE, rows |-> {}]
    ELSE LET isRenewable == IF renewableParam = "" THEN {}
                            ELSE {ParseBool(renewableParam).value}
         IN  [status |-> StatusOK, err |-> "none", queried |-> TRUE,
              rows |-> RepoGetAllTypes(db, isRenewable)]

GetAllTypes(renewableParam) ==
    LET r == HandleGetAllTypes(DB, renewableParam)
    IN  /\ resp' = [op |-> "GetAllTypes", req |-> [renewable |-> renewableParam],
                    status |-> r.status, err |-> r.err, queried |-> r.queried,
                    rows |-> r.rows]
        /\ UNCHANGED <<types, generators, productions, sessions>>

----------------------------------------------------------------------------
(* Concurrent creates. A session's statements see the rows committed when  *)
(* each statement starts (READ COMMITTED), so a call is two steps: what it *)
(* does before its INSERT, and the INSERT, which the unique and foreign    *)
(* key constraints judge against the rows committed by then.               *)

(* core.insert_type up to its INSERT.                                      *)
insert_type_checks(db, p_name, p_description) ==
    IF p_name = "" \/ p_description = "" THEN "null_or_empty"
    ELSE IF \E t \in db.types : lower(t.name) = lower(p_name) THEN "same_name"
    ELSE "none"

(* core.insert_production up to its INSERT.                                *)
insert_production_checks(db, p_generator_id, p_date, p_production_mw) ==
    IF p_production_mw < 0 THEN "negative_production"
    ELSE IF ~\E g \in db.generators : g.id = p_generator_id THEN "generator_not_exist"
    ELSE IF \E p \in db.productions : p.generatorId = p_generator_id /\ p.date = p_date
    THEN "production_exists"
    ELSE "none"

CreateOps == {"insert_type", "CreateType", "insert_production", "CreateProduction"}
TypeOps == {"insert_type", "CreateType"}

(* What a create does before its INSERT: the procedures their checks, the  *)
(* handlers the binding of the body.                                       *)
Checks(db, op, req) ==
    CASE op = "insert_type" -> insert_type_checks(db, req.name, req.description)
      [] op = "insert_production" ->
            insert_production_checks(db, req.generatorId, req.date, req.productionMW)
      [] op = "CreateType" -> IF BindCreateType(req) THEN "none" ELSE "bind"
      [] op = "CreateProduction" -> IF BindCreateProduction(req) THEN "none" ELSE "bind"

(* The INSERT of a create: one statement, under the table's constraints.   *)
Insert(db, op, req) ==
    IF op \in TypeOps THEN RepoCreateType(db, req) ELSE RepoCreateProduction(db, req)

BeginCreate(s, op, req) ==
    /\ sessions[s].pc = "idle"
    /\ LET err == Checks(DB, op, req)
       IN  sessions' = [sessions EXCEPT ![s] =
                           [pc |-> IF err = "none" THEN "insert" ELSE "done",
                            op |-> op, req |-> req, err |-> err]]
    /\ UNCHANGED <<types, generators, productions, resp>>

FinishCreate(s) ==
    /\ sessions[s].pc = "insert"
    /\ LET op == sessions[s].op
           r == Insert(DB, op, sessions[s].req)
       IN  /\ IF op \in TypeOps THEN Fits(TypeIds, types, r) ELSE Fits(ProdIds, productions, r)
           /\ types' = r.db.types
           /\ generators' = r.db.generators
           /\ productions' = r.db.productions
           /\ sessions' = [sessions EXCEPT ![s].pc = "done", ![s].err = r.err]
    /\ UNCHANGED resp

(* Concurrent update and delete. UpdateGenerator and UpdateProduction are  *)
(* two statements, each committed on its own: the UPDATE, which reports no  *)
(* error when it matches no row, and the Get...ByID that reads the row      *)
(* back. BeginUpdate is the handler up to and with the UPDATE, FinishUpdate *)
(* the read and the answer; a DELETE may fall before, between or after.     *)
BeginUpdate(s, op, id, req) ==
    LET bound == IF op = "UpdateGenerator" THEN BindUpdateGenerator(req)
                 ELSE BindUpdateProduction(req)
        r == IF op = "UpdateGenerator"
             THEN RepoUpdateGenerator(DB, Val(uuid_Parse(id)), req)
             ELSE RepoUpdateProduction(DB, Val(uuid_Parse(id)), req)
        exec == IF r.err = "no_rows" THEN "none" ELSE r.err
    IN  /\ sessions[s].pc = "idle"
        /\ IF uuid_Parse(id) = {} \/ ~bound
           THEN /\ sessions' = [sessions EXCEPT ![s] =
                                    [pc |-> "done", op |-> op,
                                     req |-> [id |-> id, body |-> req],
                                     err |-> "bind", status |-> BadRequest(DB).status]]
                /\ UNCHANGED <<types, generators, productions>>
           ELSE /\ sessions' = [sessions EXCEPT ![s] =
                                    [pc |-> IF exec = "none" THEN "written" ELSE "done",
                                     op |-> op, req |-> [id |-> id, body |-> req],
                                     err |-> exec,
                                     status |-> IF exec = "none" THEN 0
                                                ELSE UpdateReply(Result(exec, NoId, DB)).status]]
                /\ types' = r.db.types
                /\ generators' = r.db.generators
                /\ productions' = r.db.productions
        /\ UNCHANGED resp

FinishUpdate(s) ==
    /\ sessions[s].pc = "written"
    /\ LET id == Val(uuid_Parse(sessions[s].req.id))
           r == IF sessions[s].op = "UpdateGenerator" THEN RepoGetGeneratorByID(DB, id)
                ELSE RepoGetProductionByID(DB, id)
       IN  sessions' = [sessions EXCEPT ![s].pc = "done", ![s].err = r.err,
                                        ![s].status = UpdateReply(r).status]
    /\ UNCHANGED <<types, generators, productions, resp>>

----------------------------------------------------------------------------
(* Analytical functions of the SQL scripts: how the engine types them.     *)

(* The column types of sql/create.sql.                                     *)
ColumnType ==
    [id |-> "uuid", name |-> "varchar(20)", isrenuevable |-> "bool",
     capacity |-> "float8", date |-> "date", production_mw |-> "numeric"]

(* The result type of an arithmetic operator. The implicit casts go        *)
(* int4 -> numeric -> float8 and never back, so a float8 operand makes the *)
(* engine pick the float8 operator.                                        *)
ArithType(a, b) ==
    IF "undefined" \in {a, b} THEN "undefined"
    ELSE IF "float8" \in {a, b} THEN "float8"
    ELSE IF "numeric" \in {a, b} THEN "numeric"
    ELSE "int4"

(* round(v, s): the catalog holds round(numeric, integer) and no           *)
(* two-argument form for float8, which has no implicit cast to numeric.    *)
RoundType(t) == IF t \in {"numeric", "int4"} THEN "numeric" ELSE "undefined"

(* sum() and avg() over a column of type t.                                *)
SumType(t) == IF t = "int4" THEN "int8" ELSE t
AvgType(t) == IF t \in {"numeric", "int4"} THEN "numeric" ELSE t

(* The type of CASE ... THEN a ELSE b END and of COALESCE(a, b): two       *)
(* string literals resolve to text, numbers as in arithmetic.              *)
CaseType(a, b) == IF a = "unknown" /\ b = "unknown" THEN "text" ELSE ArithType(a, b)

(* RETURN QUERY: the statement is planned (every function and operator     *)
(* must resolve) and its columns must have the types of RETURNS TABLE      *)
(* exactly; no cast is applied.                                            *)
ReturnQuery(declared, actual) ==
    IF \E i \in DOMAIN actual : actual[i] = "undefined" THEN "undefined_function"
    ELSE IF actual # declared THEN "datatype_mismatch"
    ELSE "none"

TotalProductionDeclared == <<"date", "numeric", "numeric", "numeric">>
TotalProductionSelected ==
    <<ColumnType.date,
      SumType(ColumnType.production_mw),
      SumType(CaseType(ColumnType.production_mw, "int4")),
      SumType(CaseType(ColumnType.production_mw, "int4"))>>

EfficiencyDeclared == <<"uuid", "varchar(20)", "float8", "numeric", "numeric", "numeric">>
EfficiencySelected ==
    <<ColumnType.id,
      ColumnType.name,
      ColumnType.capacity,
      SumType(ColumnType.production_mw),
      AvgType(ColumnType.production_mw),
      RoundType(ArithType(ArithType(AvgType(ColumnType.production_mw),
                                    ColumnType.capacity), "int4"))>>

SummaryDeclared == <<"varchar(20)", "float8", "int8", "numeric", "numeric", "numeric">>
SummarySelected ==
    <<CaseType("unknown", "unknown"),
      SumType(ColumnType.capacity),
      "int8",
      CaseType(SumType(ColumnType.production_mw), "int4"),
      CaseType(AvgType(ColumnType.production_mw), "int4"),
      CaseType(RoundType(ArithType(ArithType(
                   CaseType(SumType(ColumnType.production_mw), "int4"),
                   "numeric"), "int4")), "int4")>>

----------------------------------------------------------------------------
(* Analytical functions: the rows their queries select.                    *)

(* The dates of the analytical model, and CURRENT_DATE among them.         *)
Days == {1, 2, 3}
Today == 2

(* IF p_end_date IS NULL THEN p_end_date := CURRENT_DATE.                  *)
EndDate(p_end_date) == Coalesce(p_end_date, Today)

(* p.date >= p_start_date AND p.date <= p_end_date.                        *)
InRange(p, p_start_date, p_end_date) ==
    p.date >= p_start_date /\ p.date <= p_end_date

RECURSIVE SumMW(_)
SumMW(ps) ==
    IF ps = {} THEN 0
    ELSE LET p == CHOOSE q \in ps : TRUE IN p.productionMW + SumMW(ps \ {p})

(* ROUND(num / den, 0) of non-negative numerics: half rounds up.           *)
RoundDiv(num, den) == (2 * num + den) \div (2 * den)

TypeOf(db, g) == CHOOSE t \in db.types : t.id = g.typeId

(* production JOIN generator JOIN type without the WHERE clause.           *)
JoinedAnyDate(db, s, e) ==
    {p \in db.productions :
        \E g \in db.generators : g.id = p.generatorId /\ TypeExists(db.types, g.typeId)}

(* production JOIN generator JOIN type, restricted to the range.           *)
Joined(db, s, e) ==
    {p \in db.productions :
        /\ InRange(p, s, e)
        /\ \E g \in db.generators : g.id = p.generatorId /\ TypeExists(db.types, g.typeId)}

(* The CASE arm t.isrenuevable = true taken for every row.                 *)
RenewableAlways(db, p) == TRUE

Renewable(db, p) ==
    LET g == CHOOSE x \in db.generators : x.id = p.generatorId
    IN  TypeOf(db, g).isRenewable

(* GROUP BY p.date ORDER BY p.date DESC.                                   *)
RECURSIVE ByDateDesc(_, _)
ByDateDesc(db, ps) ==
    IF ps = {} THEN <<>>
    ELSE LET d == CHOOSE x \in {p.date : p \in ps} : \A p \in ps : p.date <= x
             day == {p \in ps : p.date = d}
         IN  <<[date |-> d,
                total_production |-> SumMW(day),
                renewable_production |-> SumMW({p \in day : Renewable(db, p)}),
                non_renewable_production |-> SumMW({p \in day : ~Renewable(db, p)})]>>
             \o ByDateDesc(db, ps \ day)

get_total_production_by_date_range(db, p_start_date, p_end_date) ==
    LET err == ReturnQuery(TotalProductionDeclared, TotalProductionSelected)
    IN  [err |-> err,
         rows |-> IF err # "none" THEN {<<>>}
                  ELSE {ByDateDesc(db, Joined(db, p_start_date, EndDate(p_end_date)))}]

(* The rows of generator g the LEFT JOIN finds in the range.               *)
InRangeOf(db, g, s, e) == {p \in db.productions : p.generatorId = g.id /\ InRange(p, s, e)}

(* One row per generator (GROUP BY g.id, t.name, g.capacity); the          *)
(* aggregates of a generator without rows in the range are NULL. The       *)
(* average is kept as sum and count, the percentage in hundredths.         *)
EfficiencyRow(db, g, s, e) ==
    LET ps == InRangeOf(db, g, s, e)
        n == Cardinality(ps)
    IN  [generator_id |-> g.id,
         type_name |-> TypeOf(db, g).name,
         capacity |-> g.capacity,
         total_production |-> IF n = 0 THEN {} ELSE {SumMW(ps)},
         avg_daily_production |-> IF n = 0 THEN {} ELSE {[sum |-> SumMW(ps), count |-> n]},
         efficiency_percentage |->
             IF n = 0 THEN {} ELSE {RoundDiv(SumMW(ps) * 100 * 100, n * g.capacity)}]

(* ORDER BY efficiency_percentage DESC NULLS LAST: a must come before b.   *)
EfficiencyBefore(a, b) ==
    /\ a.efficiency_percentage # {}
    /\ \/ b.efficiency_percentage = {}
       \/ Val(a.efficiency_percentage) > Val(b.efficiency_percentage)

(* The orders of the rows a sort may deliver, before being the pairs the   *)
(* ORDER BY decides: ties fall either way.                                 *)
Sorted(rows, before) ==
    {s \in [1..Cardinality(rows) -> rows] :
        /\ \A i, j \in DOMAIN s : i # j => s[i] # s[j]
        /\ \A i, j \in DOMAIN s : i < j => <<s[j], s[i]>> \notin before}

(* The pairs of rows an ORDER BY decides.                                  *)
EfficiencyOrder(rows) == {o \in rows \X rows : EfficiencyBefore(o[1], o[2])}

get_generator_efficiency(db, p_start_date, p_end_date) ==
    LET err == ReturnQuery(EfficiencyDeclared, EfficiencySelected)
        joined == {g \in db.generators : TypeExists(db.types, g.typeId)}
    IN  [err |-> err,
         rows |-> IF err # "none" THEN {<<>>}
                  ELSE LET rows == {EfficiencyRow(db, g, p_start_date, EndDate(p_end_date)) :
                                       g \in joined}
                       IN  Sorted(rows, EfficiencyOrder(rows))]

(* SUM(g.capacity) over type JOIN generator LEFT JOIN production: the join *)
(* holds a generator once per row of its in the range, once if it has none.*)
RECURSIVE SumCapacity(_, _, _, _)
SumCapacity(db, gs, s, e) ==
    IF gs = {} THEN 0
    ELSE LET g == CHOOSE x \in gs : TRUE
             n == Cardinality(InRangeOf(db, g, s, e))
         IN  g.capacity * (IF n = 0 THEN 1 ELSE n) + SumCapacity(db, gs \ {g}, s, e)

(* One row per value of t.isrenuevable that has a generator.               *)
SummaryRow(db, renewable, s, e) ==
    LET gs == {g \in db.generators :
                  TypeExists(db.types, g.typeId) /\ TypeOf(db, g).isRenewable = renewable}
        ps == {p \in db.productions : \E g \in gs : p \in InRangeOf(db, g, s, e)}
        total_all_production == SumMW({p \in db.productions : InRange(p, s, e)})
    IN  [energy_type |-> IF renewable THEN "Renewable" ELSE "Non-Renewable",
         total_capacity |-> SumCapacity(db, gs, s, e),
         generator_count |-> Cardinality(gs),
         total_production |-> SumMW(ps),
         avg_production |-> IF ps = {} THEN [sum |-> 0, count |-> 1]
                            ELSE [sum |-> SumMW(ps), count |-> Cardinality(ps)],
         percentage_of_total |->
             IF total_all_production > 0
             THEN RoundDiv(SumMW(ps) * 100 * 100, total_all_production)
             ELSE 0]

(* ORDER BY energy_type: 'Non-Renewable' sorts before 'Renewable'.         *)
SummaryBefore(a, b) == a.energy_type = "Non-Renewable" /\ b.energy_type = "Renewable"

SummaryOrder(rows) == {o \in rows \X rows : SummaryBefore(o[1], o[2])}

get_renewable_summary(db, p_start_date, p_end_date) ==
    LET err == ReturnQuery(SummaryDeclared, SummarySelected)
        groups == {r \in BOOLEAN :
                     \E g \in db.generators :
                        TypeExists(db.types, g.typeId) /\ TypeOf(db, g).isRenewable = r}
    IN  [err |-> err,
         rows |-> IF err # "none" THEN {<<>>}
                  ELSE LET rows == {SummaryRow(db, r, p_start_date, EndDate(p_end_date)) :
                                       r \in groups}
                       IN  Sorted(rows, SummaryOrder(rows))]

(* SELECT * FROM core.get_...(start, end), from a database session: the    *)
(* tables stay as they are.                                                *)
Selected(op, s, e, r, rows) ==
    [op |-> op, req |-> [start |-> s, end |-> e], err |-> r.err, rows |-> rows]

SelectTotalProduction(s, e) ==
    LET r == get_total_production_by_date_range(DB, s, e)
    IN  /\ \E rows \in r.rows : resp' = Selected("get_total_production_by_date_range", s, e, r, rows)
        /\ UNCHANGED <<types, generators, productions, sessions>>

SelectGeneratorEfficiency(s, e) ==
    LET r == get_generator_efficiency(DB, s, e)
    IN  /\ \E rows \in r.rows : resp' = Selected("get_generator_efficiency", s, e, r, rows)
        /\ UNCHANGED <<types, generators, productions, sessions>>

SelectRenewableSummary(s, e) ==
    LET r == get_renewable_summary(DB, s, e)
    IN  /\ \E rows \in r.rows : resp' = Selected("get_renewable_summary", s, e, r, rows)
        /\ UNCHANGED <<types, generators, productions, sessions>>

----------------------------------------------------------------------------
(* GET /productions?generatorId=...&startDate=...&endDate=...              *)

(* ORDER BY p.date DESC, t.name: the later date first; rows of one date    *)
(* fall as the collation of the type names has them.                       *)
ProductionOrder(rows) == {o \in rows \X rows : o[1].date > o[2].date}

(* RepoGetAllProductions with the end date excluded (p.date < $n).         *)
RepoGetAllProductionsOpenEnd(db, generatorID, startDate, endDate) ==
    IF \/ startDate # {} /\ date_in(Val(startDate)) = {}
       \/ endDate # {} /\ date_in(Val(endDate)) = {}
    THEN [err |-> "invalid_datetime_format", rows |-> {<<>>}]
    ELSE LET rows == {p \in db.productions :
                        /\ \E g \in db.generators :
                              g.id = p.generatorId /\ TypeExists(db.types, g.typeId)
                        /\ generatorID # {} => p.generatorId = Val(generatorID)
                        /\ startDate # {} => p.date >= Val(startDate)
                        /\ endDate # {} => p.date < Val(endDate)}
         IN  [err |-> "none", rows |-> Sorted(rows, ProductionOrder(rows))]

(* SELECT ... FROM productions p JOIN generators g JOIN types t, with one  *)
(* condition per filter that is present; the dates go to the engine as the *)
(* text the request carried.                                               *)
RepoGetAllProductions(db, generatorID, startDate, endDate) ==
    IF \/ startDate # {} /\ date_in(Val(startDate)) = {}
       \/ endDate # {} /\ date_in(Val(endDate)) = {}
    THEN [err |-> "invalid_datetime_format", rows |-> {<<>>}]
    ELSE LET rows == {p \in db.productions :
                        /\ \E g \in db.generators :
                              g.id = p.generatorId /\ TypeExists(db.types, g.typeId)
                        /\ generatorID # {} => p.generatorId = Val(generatorID)
                        /\ startDate # {} => p.date >= Val(startDate)
                        /\ endDate # {} => p.date <= Val(endDate)}
         IN  [err |-> "none", rows |-> Sorted(rows, ProductionOrder(rows))]

(* ProductionHandler.GetAllProductions: generatorId must parse as a UUID;  *)
(* the dates are passed on as they came; any repository error is answered  *)
(* 500.                                                                    *)
HandleGetAllProductions(db, generatorId, startDate, endDate) ==
    IF generatorId # {} /\ uuid_Parse(Val(generatorId)) = {}
    THEN [status |-> StatusBadRequest, err |-> "bind", queried |-> FALSE, rows |-> {<<>>}]
    ELSE LET genID == IF generatorId = {} THEN {} ELSE uuid_Parse(Val(generatorId))
             r == RepoGetAllProductions(db, genID, startDate, endDate)
         IN  [status |-> IF r.err # "none" THEN StatusInternalServerError ELSE StatusOK,
              err |-> r.err, queried |-> TRUE, rows |-> r.rows]

GetAllProductions(generatorId, startDate, endDate) ==
    LET r == HandleGetAllProductions(DB, generatorId, startDate, endDate)
    IN  /\ \E rows \in r.rows :
              resp' = [op |-> "GetAllProductions",
                       req |-> [generatorId |-> generatorId, startDate |-> startDate,
                                endDate |-> endDate],
                       status |-> r.status, err |-> r.err, queried |-> r.queried,
                       rows |-> rows]
        /\ UNCHANGED <<types, generators, productions, sessions>>

(* GET /types/:id, /generators/:id, /productions/:id: the three handlers    *)
(* parse the id, call the repository's Get...ByID and answer 404 on        *)
(* sql.ErrNoRows, 500 on any other error, 200 with the record otherwise.   *)
GetByID(table, id) ==
    LET parsed == uuid_Parse(id)
        found == CASE table = "types" -> TypeExists(types, Val(parsed))
                   [] table = "generators" ->
                         RepoGetGeneratorByID(DB, Val(parsed)).err = "none"
                   [] table = "productions" ->
                         RepoGetProductionByID(DB, Val(parsed)).err = "none"
        r == IF parsed = {} THEN BadRequest(DB)
             ELSE IF found THEN Response(StatusOK, Result("none", Val(parsed), DB))
             ELSE Response(StatusNotFound, Result("no_rows", NoId, DB))
    IN  /\ resp' = Answer("GetByID", [table |-> table, id |-> id], r)
        /\ UNCHANGED <<types, generators, productions, sessions>>

(* GET /generators?typeId=...: typeId must parse as a UUID; the rows are    *)
(* the generators joined with their types, of that type when one is given. *)
GetAllGenerators(typeId) ==
    LET parsed == IF typeId = {} THEN {} ELSE uuid_Parse(Val(typeId))
        rows == {g \in generators :
                    /\ TypeExists(types, g.typeId)
                    /\ parsed # {} => g.typeId = Val(parsed)}
    IN  /\ resp' = IF typeId # {} /\ parsed = {}
                   THEN [op |-> "GetAllGenerators", req |-> [typeId |-> typeId],
                         status |-> StatusBadRequest, err |-> "bind",
                         queried |-> FALSE, rows |-> {}]
                   ELSE [op |-> "GetAllGenerators", req |-> [typeId |-> typeId],
                         status |-> StatusOK, err |-> "none",
                         queried |-> TRUE, rows |-> rows]
        /\ UNCHANGED <<types, generators, productions, sessions>>

----------------------------------------------------------------------------
(* Requests of the model.                                                  *)

Names == {"Solar", "solar", "Wind"}
Descriptions == {"PV", "Turbine"}

SolarType == [name |-> "Solar", description |-> "PV", isRenewable |-> TRUE]
GasType == [name |-> "Gas", description |-> "CCGT", isRenewable |-> FALSE]
WindType == [name |-> "Wind", description |-> "Turbine", isRenewable |-> TRUE]

CreateTypeRequest == [name : Names \cup {""}, description : {"PV"}, isRenewable : BOOLEAN]
UpdateTypeRequest ==
    [name : Names \cup {""}, description : Descriptions \cup {""}, isRenewable : Opt(BOOLEAN)]
CreateGeneratorRequest == [typeId : TypeIds, capacity : {0, 100}]
UpdateGeneratorRequest == [typeId : Opt(TypeIds), capacity : Opt({0, 200})]
CreateProductionRequest == [generatorId : GenIds, date : Dates, productionMW : {-1, 0, 50}]
UpdateProductionRequest ==
    [generatorId : Opt(GenIds), date : Opt(Dates), productionMW : Opt({-1, 0, 50})]

----------------------------------------------------------------------------
(* SpecTypes: the type endpoints, core.insert_type and core.update_type.    *)

NextTypes ==
    \/ \E req \in CreateTypeRequest : CreateType(req)
    \/ \E id \in TypeIds, req \in UpdateTypeRequest : UpdateType(id, req)
    \/ \E id \in TypeIds : DeleteType(id)
    \/ \E req \in CreateTypeRequest : CallInsertType(req)
    \/ \E id \in TypeIds, req \in {r \in UpdateTypeRequest : r.description = "Turbine"} :
          CallUpdateType(id, req)

SpecTypes == Init /\ [][NextTypes]_vars

(* SpecStore: the three tables, rows created and deleted (with the         *)
(* cascades) through the endpoints and the insert procedures.              *)

NextStore ==
    \/ \E req \in {SolarType, GasType} : CreateType(req)
    \/ \E id \in TypeIds : DeleteType(id)
    \/ \E req \in CreateGeneratorRequest : CreateGenerator(req)
    \/ \E req \in CreateGeneratorRequest : CallInsertGenerator(req)
    \/ \E id \in GenIds : DeleteGenerator(id)
    \/ \E req \in CreateProductionRequest : CreateProduction(req)
    \/ \E req \in CreateProductionRequest : CallInsertProduction(req)
    \/ \E id \in ProdIds : DeleteProduction(id)

SpecStore == Init /\ [][NextStore]_vars

(* SpecGenerators: the generator endpoints, from the state after          *)
(* CreateType(SolarType) and CreateType(GasType).                          *)

InitGenerators ==
    /\ types = {[id |-> 1] @@ SolarType, [id |-> 2] @@ GasType}
    /\ generators = {}
    /\ productions = {}
    /\ resp = NoRequest
    /\ sessions = NoSessions

GeneratorCapacities == {-1, 0, 100, 200}
GeneratorsCreateRequest == [typeId : TypeIds, capacity : GeneratorCapacities]
GeneratorsUpdateRequest == [typeId : Opt(TypeIds), capacity : Opt(GeneratorCapacities)]

NextGenerators ==
    \/ \E id \in TypeIds : DeleteType(id)
    \/ \E req \in GeneratorsCreateRequest : CreateGenerator(req)
    \/ \E req \in GeneratorsCreateRequest : CallInsertGenerator(req)
    \/ \E id \in GenIds, req \in GeneratorsUpdateRequest : UpdateGenerator(id, req)
    \/ \E id \in GenIds : DeleteGenerator(id)

SpecGenerators == InitGenerators /\ [][NextGenerators]_vars

(* SpecProductions: the production endpoints, from the state after         *)
(* CreateType(SolarType) and two CreateGenerator of that type.             *)

InitProductions ==
    /\ types = {[id |-> 1] @@ SolarType}
    /\ generators = {[id |-> g, typeId |-> 1, capacity |-> 100] : g \in GenIds}
    /\ productions = {}
    /\ resp = NoRequest
    /\ sessions = NoSessions

NextProductions ==
    \/ \E id \in GenIds : DeleteGenerator(id)
    \/ \E req \in CreateProductionRequest : CreateProduction(req)
    \/ \E id \in ProdIds, req \in UpdateProductionRequest : UpdateProduction(id, req)
    \/ \E id \in ProdIds : DeleteProduction(id)

SpecProductions == InitProductions /\ [][NextProductions]_vars

(* SpecAnalytics: the analytical functions over the stores reached from    *)
(* a Solar and a Gas type with one generator each.                         *)

AnalyticsProductionRequest == [generatorId : GenIds, date : Days, productionMW : {0, 50}]

InitAnalytics ==
    /\ types = {[id |-> 1] @@ SolarType, [id |-> 2] @@ GasType}
    /\ generators = {[id |-> 1, typeId |-> 1, capacity |-> 100],
                     [id |-> 2, typeId |-> 2, capacity |-> 200]}
    /\ productions = {}
    /\ resp = NoRequest
    /\ sessions = NoSessions

NextAnalytics ==
    \/ \E req \in AnalyticsProductionRequest : CallInsertProduction(req)
    \/ \E id \in GenIds : DeleteGenerator(id)
    \/ \E s \in Days, e \in Opt(Days) : SelectTotalProduction(s, e)
    \/ \E s \in Days, e \in Opt(Days) : SelectGeneratorEfficiency(s, e)
    \/ \E s \in Days, e \in Opt(Days) : SelectRenewableSummary(s, e)

SpecAnalytics == InitAnalytics /\ [][NextAnalytics]_vars

(* SpecRace: two sessions, each one create, from the empty store or from  *)
(* the store of SpecProductions.                                           *)

RaceTypeRequest == [name : Names, description : {"PV"}, isRenewable : {TRUE}]
RaceProductionRequest == [generatorId : GenIds, date : Dates, productionMW : {50}]

InitRace ==
    /\ \/ types = {} /\ generators = {}
       \/ /\ types = {[id |-> 1] @@ GasType}
          /\ generators = {[id |-> g, typeId |-> 1, capacity |-> 100] : g \in GenIds}
    /\ productions = {}
    /\ resp = NoRequest
    /\ sessions = NoSessions

NextRace ==
    \/ \E s \in Sessions, op \in TypeOps, req \in RaceTypeRequest : BeginCreate(s, op, req)
    \/ \E s \in Sessions, op \in CreateOps \ TypeOps, req \in RaceProductionRequest :
          BeginCreate(s, op, req)
    \/ \E s \in Sessions : FinishCreate(s)

SpecRace == InitRace /\ [][NextRace]_vars

(* SpecUpdateRace: updates in two steps and deletes, in every order, over   *)
(* the stores that creates reach from the store of SpecAnalytics; the       *)
(* creates all come first, so that no id is given out again after a delete. *)

NextUpdateRace ==
    \/ \E req \in {r \in RaceProductionRequest :
                       /\ sessions = NoSessions
                       /\ resp.op \notin {"DeleteGenerator", "DeleteProduction"}} :
          CreateProduction(req)
    \/ \E s \in Sessions, id \in GenIds, req \in [typeId : Opt({2}), capacity : Opt({300})] :
          BeginUpdate(s, "UpdateGenerator", id, req)
    \/ \E s \in Sessions, id \in ProdIds,
            req \in [generatorId : {{}}, date : {{}}, productionMW : Opt({60})] :
          BeginUpdate(s, "UpdateProduction", id, req)
    \/ \E s \in Sessions : FinishUpdate(s)
    \/ \E id \in GenIds : DeleteGenerator(id)
    \/ \E id \in ProdIds : DeleteProduction(id)

SpecUpdateRace == InitAnalytics /\ [][NextUpdateRace]_vars

(* SpecCrud: the nine writing endpoints together, from the empty tables.  *)

CrudUpdateTypeRequest == [name : {"Gas"}, description : {"CCGT"}, isRenewable : Opt({FALSE})]
CrudUpdateGeneratorRequest == [typeId : Opt({2}), capacity : Opt({0})]
CrudCreateProductionRequest == [generatorId : GenIds, date : {1}, productionMW : {-1, 50}]
CrudUpdateProductionRequest ==
    [generatorId : Opt({2}), date : Opt({2}), productionMW : Opt({-1})]

NextCrud ==
    \/ \E req \in {SolarType, GasType} : CreateType(req)
    \/ \E id \in TypeIds, req \in CrudUpdateTypeRequest : UpdateType(id, req)
    \/ \E id \in TypeIds : DeleteType(id)
    \/ \E req \in CreateGeneratorRequest : CreateGenerator(req)
    \/ \E id \in GenIds, req \in CrudUpdateGeneratorRequest : UpdateGenerator(id, req)
    \/ \E id \in GenIds : DeleteGenerator(id)
    \/ \E req \in CrudCreateProductionRequest : CreateProduction(req)
    \/ \E id \in ProdIds, req \in CrudUpdateProductionRequest : UpdateProduction(id, req)
    \/ \E id \in ProdIds : DeleteProduction(id)

SpecCrud == Init /\ [][NextCrud]_vars

(* SpecTypeList: the Type list with its renewable filter, over the stores *)
(* the type endpoints reach.                                               *)

RenewableParams == {"", "true", "false", "1", "T", "TRUE", "yes", "0", "no"}

NextTypeList ==
    \/ \E req \in {SolarType, GasType, WindType} : CreateType(req)
    \/ \E id \in TypeIds, req \in CrudUpdateTypeRequest : UpdateType(id, req)
    \/ \E id \in TypeIds : DeleteType(id)
    \/ \E renewableParam \in RenewableParams : GetAllTypes(renewableParam)

SpecTypeList == Init /\ [][NextTypeList]_vars

(* SpecDates: the production endpoints with the dates as requests carry  *)
(* them, from the store of SpecProductions.                                *)

DateTexts == Dates \cup {BadDate}
DatesCreateRequest == [generatorId : GenIds, date : DateTexts, productionMW : {50}]
DatesUpdateRequest == [generatorId : {{}}, date : Opt(DateTexts), productionMW : Opt({60})]

NextDates ==
    \/ \E req \in DatesCreateRequest : CreateProduction(req)
    \/ \E id \in ProdIds, req \in DatesUpdateRequest : UpdateProduction(id, req)
    \/ \E id \in ProdIds : DeleteProduction(id)
    \/ \E g \in Opt(GenIds), s \in Opt(DateTexts), e \in Opt(DateTexts) :
          GetAllProductions(g, s, e)

SpecDates == InitProductions /\ [][NextDates]_vars

(* SpecIds: the get, list, update and delete endpoints with the ids as the *)
(* requests carry them, from the store of SpecProductions.                 *)

NextIds ==
    \/ \E req \in CrudCreateProductionRequest : CreateProduction(req)
    \/ \E table \in {"types", "generators", "productions"}, id \in {1, 2, BadId} :
          GetByID(table, id)
    \/ \E typeId \in Opt(TypeIds \cup {BadId}) : GetAllGenerators(typeId)
    \/ \E g \in Opt(GenIds \cup {BadId}) : GetAllProductions(g, {}, {})
    \/ \E id \in TypeIds \cup {BadId}, req \in CrudUpdateTypeRequest : UpdateType(id, req)
    \/ \E id \in TypeIds \cup {BadId} : DeleteType(id)
    \/ \E id \in GenIds \cup {BadId}, req \in CrudUpdateGeneratorRequest :
          UpdateGenerator(id, req)
    \/ \E id \in GenIds \cup {BadId} : DeleteGenerator(id)
    \/ \E id \in ProdIds \cup {BadId}, req \in CrudUpdateProductionRequest :
          UpdateProduction(id, req)
    \/ \E id \in ProdIds \cup {BadId} : DeleteProduction(id)

SpecIds == InitProductions /\ [][NextIds]_vars

----------------------------------------------------------------------------
(* Properties.                                                             *)

Bound(r) == r.status # StatusBadRequest

(* C1: a CreateType whose name equals an existing Type's name when letter  *)
(* case is ignored fails with a uniqueness error and adds no Type; one     *)
(* whose name differs from every existing name, case ignored, succeeds.    *)
C1_CreateTypeRejectsNameIgnoringCase ==
    [][(resp'.op = "CreateType" /\ Bound(resp')) =>
         IF \E t \in types : lower(t.name) = lower(resp'.req.name)
         THEN resp'.err = "unique_violation" /\ types' = types
         ELSE resp'.err = "none" /\ Cardinality(types') = Cardinality(types) + 1]_vars

(* C2: no two Production rows share (generatorId, date); a CreateProduction *)
(* for a pair that exists fails with the uniqueness error and adds no row, *)
(* and one for a free pair of an existing generator adds exactly its row.  *)
OnePerPeriod ==
    \A p, q \in productions :
        (p.generatorId = q.generatorId /\ p.date = q.date) => p = q

C2_OneProductionPerGeneratorAndDate ==
    /\ []OnePerPeriod
    /\ [][(resp'.op = "CreateProduction" /\ Bound(resp')) =>
            LET req == resp'.req
                taken == \E p \in productions :
                            p.generatorId = req.generatorId /\ p.date = req.date
            IN  /\ taken => (resp'.err = "unique_violation" /\ productions' = productions)
                /\ (~taken /\ GeneratorExists(generators, req.generatorId)) =>
                      /\ resp'.err = "none"
                      /\ productions' = productions \cup
                            {[id |-> resp'.id, generatorId |-> req.generatorId,
                              date |-> req.date, productionMW |-> req.productionMW]}
                      /\ resp'.id \notin Ids(productions)]_vars

(* C2 witness: a duplicate was just refused while the generator holds two  *)
(* rows on different dates.                                                *)
C2_Witness ==
    /\ resp.op = "CreateProduction" /\ resp.err = "unique_violation"
    /\ \E p, q \in productions : p.generatorId = q.generatorId /\ p.date # q.date

(* C3: a CreateGenerator whose typeId identifies no Type fails with the    *)
(* foreign-key error and leaves the tables as they were.                   *)
C3_CreateGeneratorNeedsType ==
    [][(resp'.op = "CreateGenerator" /\ Bound(resp')
            /\ ~\E t \in types : t.id = resp'.req.typeId) =>
         (resp'.err = "foreign_key_violation"
            /\ generators' = generators /\ types' = types
            /\ productions' = productions)]_vars

(* C3 witness: a create was refused for its typeId while another Type      *)
(* exists.                                                                 *)
C3_Witness ==
    /\ resp.op = "CreateGenerator" /\ resp.err = "foreign_key_violation"
    /\ types # {} /\ ~TypeExists(types, resp.req.typeId)

(* C4: a successful DeleteType removes the Type, its Generators and their  *)
(* Productions and nothing else; a successful DeleteGenerator removes the  *)
(* Generator and its Productions and nothing else.                         *)
C4_DeleteCascades ==
    [][/\ (resp'.op = "DeleteType" /\ resp'.err = "none") =>
            LET id == resp'.req.id
            IN  /\ types' = {t \in types : t.id # id}
                /\ generators' = {g \in generators : g.typeId # id}
                /\ productions' =
                     {p \in productions :
                        \E g \in generators : g.id = p.generatorId /\ g.typeId # id}
       /\ (resp'.op = "DeleteGenerator" /\ resp'.err = "none") =>
            LET id == resp'.req.id
            IN  /\ types' = types
                /\ generators' = {g \in generators : g.id # id}
                /\ productions' = {p \in productions : p.generatorId # id}]_vars

(* C4 witness: a DeleteType took a generator and a production with it and  *)
(* left another type's generator and production in place.                  *)
C4_Witness ==
    /\ resp.op = "DeleteType" /\ resp.err = "none"
    /\ resp.gone.generators > 0 /\ resp.gone.productions > 0
    /\ generators # {} /\ productions # {}

(* C5: an UpdateProduction of an existing row that supplies only a valid   *)
(* productionMW sets that row's productionMW and changes nothing else.     *)
C5_UpdateProductionKeepsDateAndGenerator ==
    [][(/\ resp'.op = "UpdateProduction"
        /\ resp'.req.body.generatorId = {} /\ resp'.req.body.date = {}
        /\ resp'.req.body.productionMW # {} /\ Bound(resp')
        /\ \E p \in productions : p.id = resp'.req.id) =>
         LET old == CHOOSE p \in productions : p.id = resp'.req.id
         IN  /\ resp'.err = "none"
             /\ productions' = (productions \ {old}) \cup
                   {[old EXCEPT !.productionMW = Val(resp'.req.body.productionMW)]}
             /\ generators' = generators /\ types' = types]_vars

(* C5 witness: such an update was just applied next to another row.        *)
C5_Witness ==
    /\ resp.op = "UpdateProduction" /\ resp.err = "none"
    /\ resp.req.body.generatorId = {} /\ resp.req.body.date = {}
    /\ resp.req.body.productionMW # {}
    /\ \E p \in productions :
          p.id = resp.req.id /\ p.productionMW = Val(resp.req.body.productionMW)
    /\ Cardinality(productions) > 1

(* C6: an UpdateType of an existing Type succeeds and leaves every field   *)
(* the request does not supply at its previous value.                      *)
C6_UpdateTypeKeepsUnsuppliedFields ==
    [][(/\ resp'.op = "UpdateType" /\ Bound(resp')
        /\ \E t \in types : t.id = resp'.req.id
        /\ ~TypeNameTaken(types, resp'.req.id, resp'.req.body.name)) =>
         LET old == CHOOSE t \in types : t.id = resp'.req.id
             body == resp'.req.body
         IN  /\ resp'.err = "none"
             /\ types' = (types \ {old}) \cup
                   {[id |-> old.id,
                     name |-> IF body.name = "" THEN old.name ELSE body.name,
                     description |-> IF body.description = "" THEN old.description
                                     ELSE body.description,
                     isRenewable |-> Coalesce(body.isRenewable, old.isRenewable)]}]_vars

(* The Production rows of generator g inside the range of the last query.  *)
Requested(g) ==
    {p \in productions :
        /\ p.generatorId = g.id
        /\ p.date >= resp.req.start
        /\ p.date <= (IF resp.req.end = {} THEN Today ELSE Val(resp.req.end))}

(* C7: generator-efficiency answers; a generator with no Production row in *)
(* the range has null average and null efficiency; every such row comes    *)
(* after all rows with an efficiency, and those are in descending order.   *)
C7_EfficiencyNullsLast ==
    resp.op = "get_generator_efficiency" =>
      /\ resp.err = "none"
      /\ \A g \in generators :
            Requested(g) = {} =>
               \E i \in DOMAIN resp.rows :
                  /\ resp.rows[i].generator_id = g.id
                  /\ resp.rows[i].avg_daily_production = {}
                  /\ resp.rows[i].efficiency_percentage = {}
      /\ \A i, j \in DOMAIN resp.rows :
            i < j =>
               LET a == resp.rows[i].efficiency_percentage
                   b == resp.rows[j].efficiency_percentage
               IN  /\ a = {} => b = {}
                   /\ (a # {} /\ b # {}) => Val(a) >= Val(b)

(* The percentages of the rows of a summary, added up (in hundredths).     *)
RECURSIVE SumPercentage(_)
SumPercentage(rows) ==
    IF rows = <<>> THEN 0 ELSE Head(rows).percentage_of_total + SumPercentage(Tail(rows))

(* C8: the renewable summary answers; when the production in the range is  *)
(* above 0 the percentages of its partitions add up to at most 100, and    *)
(* when it is 0 every partition reports percentage 0.                      *)
C8_SummaryPercentages ==
    resp.op = "get_renewable_summary" =>
      LET grand == SumMW(UNION {Requested(g) : g \in generators})
      IN  /\ resp.err = "none"
          /\ Len(resp.rows) =
                Cardinality({TypeOf(DB, g).isRenewable : g \in generators})
          /\ grand > 0 => SumPercentage(resp.rows) <= 100 * 100
          /\ grand = 0 => \A i \in DOMAIN resp.rows : resp.rows[i].percentage_of_total = 0

(* C9: generator-efficiency reports, for a generator with rows in the      *)
(* range, (sum of their productionMW / their number) / capacity x 100      *)
(* rounded to 2 decimals: 50.00 for capacity 100 and one record of 50 MW.  *)
C9_EfficiencyValue ==
    resp.op = "get_generator_efficiency" =>
      /\ resp.err = "none"
      /\ \A g \in generators :
            Requested(g) # {} =>
               \E i \in DOMAIN resp.rows :
                  /\ resp.rows[i].generator_id = g.id
                  /\ resp.rows[i].efficiency_percentage =
                        {(2 * SumMW(Requested(g)) * 100 * 100
                             + Cardinality(Requested(g)) * g.capacity)
                         \div (2 * Cardinality(Requested(g)) * g.capacity)}
                  /\ (g.capacity = 100 /\ Cardinality(Requested(g)) = 1
                        /\ SumMW(Requested(g)) = 50) =>
                       resp.rows[i].efficiency_percentage = {50 * 100}

(* C10: over a range that holds no Production record each of the three     *)
(* analytical queries answers without error: total production with no row, *)
(* efficiency with one row of null aggregates per generator, the summary   *)
(* with zero production, average and percentage in every partition.        *)
C10_EmptyRangeAnswers ==
    (/\ resp.op \in {"get_total_production_by_date_range",
                     "get_generator_efficiency", "get_renewable_summary"}
     /\ \A g \in generators : Requested(g) = {}) =>
       /\ resp.err = "none"
       /\ resp.op = "get_total_production_by_date_range" => resp.rows = <<>>
       /\ resp.op = "get_generator_efficiency" =>
             /\ Len(resp.rows) = Cardinality(generators)
             /\ \A i \in DOMAIN resp.rows :
                   /\ resp.rows[i].total_production = {}
                   /\ resp.rows[i].efficiency_percentage = {}
       /\ resp.op = "get_renewable_summary" =>
             \A i \in DOMAIN resp.rows :
                /\ resp.rows[i].total_production = 0
                /\ resp.rows[i].avg_production.sum = 0
                /\ resp.rows[i].percentage_of_total = 0

(* Two creates ask for the same key: the same Type name when case is       *)
(* ignored, or the same generator and date.                                *)
SameKey(a, b) ==
    \/ a.op \in TypeOps /\ b.op \in TypeOps /\ lower(a.req.name) = lower(b.req.name)
    \/ /\ a.op \in CreateOps \ TypeOps /\ b.op \in CreateOps \ TypeOps
       /\ a.req.generatorId = b.req.generatorId /\ a.req.date = b.req.date
       /\ GeneratorExists(generators, a.req.generatorId)

Duplicate == {"same_name", "production_exists", "unique_violation"}

(* C11: of two concurrent creates for the same key at most one succeeds    *)
(* and the other fails with the duplicate error, whatever the order of     *)
(* their checks and inserts; the store never holds two Types whose names   *)
(* are equal ignoring case nor two Productions of one generator and date.  *)
C11_RacingCreatesKeepKeysUnique ==
    /\ \A t, u \in types : lower(t.name) = lower(u.name) => t = u
    /\ \A p, q \in productions :
          (p.generatorId = q.generatorId /\ p.date = q.date) => p = q
    /\ \A s, t \in Sessions :
          (/\ s # t /\ sessions[s].pc = "done" /\ sessions[t].pc = "done"
           /\ SameKey(sessions[s], sessions[t])) =>
             /\ sessions[s].err \in Duplicate \cup {"none"}
             /\ sessions[s].err = "none" => sessions[t].err \in Duplicate

(* The rows of the table a request addresses.                              *)
TableOf(op) ==
    IF op \in {"UpdateType", "DeleteType"} THEN types
    ELSE IF op \in {"UpdateGenerator", "DeleteGenerator"} THEN generators
    ELSE productions

(* C12: an update of a Type, Generator or Production whose id identifies   *)
(* no row is answered 404 Not Found and leaves the tables as they were.    *)
C12_UpdateOfUnknownIdIsNotFound ==
    [][(/\ resp'.op \in {"UpdateType", "UpdateGenerator", "UpdateProduction"}
        /\ Bound(resp')
        /\ resp'.req.id \notin Ids(TableOf(resp'.op))) =>
         /\ resp'.status = StatusNotFound
         /\ types' = types /\ generators' = generators /\ productions' = productions]_vars

(* C12 witness: an update that names a new generator was answered 404     *)
(* while the table holds another row.                                      *)
C12_Witness ==
    /\ resp.op = "UpdateProduction" /\ resp.status = StatusNotFound
    /\ resp.req.body.generatorId # {}
    /\ productions # {} /\ resp.req.id \notin Ids(productions)

(* C13: a delete of a Type, Generator or Production whose id identifies no *)
(* row is answered 404 Not Found and leaves the tables as they were; a     *)
(* delete of an existing row is answered 204 and the row is gone, so that  *)
(* the same delete again is answered 404.                                  *)
C13_DeleteOfUnknownIdIsNotFound ==
    [][(resp'.op \in {"DeleteType", "DeleteGenerator", "DeleteProduction"}) =>
         IF resp'.req.id \in Ids(TableOf(resp'.op))
         THEN /\ resp'.status = StatusNoContent
              /\ resp'.req.id \notin
                    Ids(IF resp'.op = "DeleteType" THEN types'
                        ELSE IF resp'.op = "DeleteGenerator" THEN generators'
                        ELSE productions')
         ELSE /\ resp'.status = StatusNotFound
              /\ types' = types /\ generators' = generators
              /\ productions' = productions]_vars

(* C13 witness: a delete was answered 404 while the table holds other rows *)
(* and the id had been a row's before.                                     *)
C13_Witness ==
    /\ resp.op = "DeleteGenerator" /\ resp.status = StatusNotFound
    /\ generators # {} /\ resp.req.id \notin Ids(generators)
    /\ \E g \in generators : g.id > resp.req.id

(* C14: a CreateProduction for an existing generator and a date it has no  *)
(* record on is persisted when productionMW is 0 or more, 0 included, and  *)
(* refused as invalid only when productionMW is below 0.                   *)
C14_ZeroProductionIsAccepted ==
    [][(/\ resp'.op = "CreateProduction"
        /\ GeneratorExists(generators, resp'.req.generatorId)
        /\ ~PeriodTaken(productions, NoId, resp'.req.generatorId, resp'.req.date)) =>
         IF resp'.req.productionMW >= 0
         THEN /\ resp'.status = StatusCreated
              /\ \E p \in productions' \ productions :
                    /\ p.generatorId = resp'.req.generatorId
                    /\ p.date = resp'.req.date
                    /\ p.productionMW = resp'.req.productionMW
         ELSE /\ resp'.status = StatusBadRequest
              /\ productions' = productions]_vars

(* C15: every stored Generator has capacity above 0, whatever creates and  *)
(* updates were served; a create or an update that supplies a capacity of  *)
(* 0 or less is answered 400 and changes nothing.                          *)
C15_CapacityStaysPositive ==
    /\ [](\A g \in generators : g.capacity > 0)
    /\ [][(\/ resp'.op = "CreateGenerator" /\ resp'.req.capacity <= 0
           \/ /\ resp'.op = "UpdateGenerator"
              /\ resp'.req.body.capacity # {}
              /\ Val(resp'.req.body.capacity) <= 0) =>
            /\ resp'.status = StatusBadRequest
            /\ generators' = generators /\ types' = types
            /\ productions' = productions]_vars

(* C15 witness: an update of a stored generator to capacity 0 was refused. *)
C15_Witness ==
    /\ resp.op = "UpdateGenerator" /\ resp.status = StatusBadRequest
    /\ resp.req.body.capacity = {0}
    /\ resp.req.id \in Ids(generators)

(* C16: the renewable filter of the Type list takes the tokens "true" and  *)
(* "false" and no other: any other non-empty token is answered 400 and no  *)
(* query reaches the store.                                                *)
C16_RenewableFilterTakesTrueAndFalseOnly ==
    (resp.op = "GetAllTypes" /\ resp.req.renewable # "") =>
       IF resp.req.renewable \in {"true", "false"}
       THEN /\ resp.status = StatusOK
            /\ resp.rows = {t \in types : t.isRenewable = (resp.req.renewable = "true")}
       ELSE resp.status = StatusBadRequest /\ ~resp.queried

(* C17: a request whose date is not a calendar date - the date of a        *)
(* Production create or update, the startDate or endDate of the Production *)
(* list - is answered 400 and changes nothing.                             *)
C17_InvalidDateIsBadRequest ==
    [][(\/ resp'.op = "CreateProduction" /\ resp'.req.date = BadDate
        \/ resp'.op = "UpdateProduction" /\ resp'.req.body.date = {BadDate}
        \/ /\ resp'.op = "GetAllProductions"
           /\ BadDate \in resp'.req.startDate \cup resp'.req.endDate) =>
         /\ resp'.status = StatusBadRequest
         /\ productions' = productions]_vars

(* C18: a write the store refuses for a uniqueness violation is answered   *)
(* with a client error, 400 or 409, and one refused for a dangling         *)
(* reference with 400; none of them is answered 500.                       *)
C18_ConstraintViolationsAreClientErrors ==
    /\ resp.err = "unique_violation" => resp.status \in {StatusBadRequest, 409}
    /\ resp.err = "foreign_key_violation" => resp.status = StatusBadRequest

(* C19: every answer of the create, update and delete endpoints is the     *)
(* envelope, its status member "success" with the payload under data, or   *)
(* "error"; the HTTP status is 201 for a create, 200 for an update, 204    *)
(* for a delete, 400 for a request that does not validate and 404 for an   *)
(* unknown id.                                                             *)
C19_AnswersAreEnvelopes ==
    resp.op # "none" =>
        /\ "status" \in DOMAIN resp.body
        /\ resp.err = "none" =>
               /\ resp.body.status = "success"
               /\ "data" \in DOMAIN resp.body
               /\ resp.status =
                      CASE resp.op \in {"CreateType", "CreateGenerator", "CreateProduction"}
                             -> StatusCreated
                        [] resp.op \in {"UpdateType", "UpdateGenerator", "UpdateProduction"}
                             -> StatusOK
                        [] OTHER -> StatusNoContent
        /\ resp.err # "none" => resp.body.status = "error"
        /\ resp.err = "bind" => resp.status = StatusBadRequest
        /\ resp.err = "no_rows" => resp.status = StatusNotFound

(* C20: an UpdateType of an existing Type to a name that a different Type  *)
(* holds, letter case ignored, fails with the uniqueness error and changes *)
(* no Type; one that keeps the Type's own name, or changes only its letter *)
(* case, succeeds; and no two Types ever hold names equal when letter case *)
(* is ignored.                                                             *)
NameOf(rows, id) == (CHOOSE t \in rows : t.id = id).name

C20_UpdateTypeKeepsNamesUniqueIgnoringCase ==
    /\ [](\A t, u \in types : lower(t.name) = lower(u.name) => t = u)
    /\ [][(/\ resp'.op = "UpdateType" /\ Bound(resp')
           /\ TypeExists(types, resp'.req.id)) =>
            IF \E t \in types : /\ t.id # resp'.req.id
                                 /\ lower(t.name) = lower(resp'.req.body.name)
            THEN resp'.err = "unique_violation" /\ types' = types
            ELSE lower(NameOf(types, resp'.req.id)) = lower(resp'.req.body.name) =>
                     resp'.err = "none"]_vars

(* C21: an UpdateProduction of an existing record whose resulting           *)
(* (generatorId, date) pair is held by a different record fails with the   *)
(* uniqueness error and changes no record; one that supplies the record's  *)
(* own generatorId and date again succeeds and leaves the other records    *)
(* as they were.                                                           *)
C21_UpdateProductionKeepsPeriodsUnique ==
    [][(/\ resp'.op = "UpdateProduction" /\ Bound(resp')
        /\ \E p \in productions : p.id = resp'.req.id) =>
         LET old == CHOOSE p \in productions : p.id = resp'.req.id
             body == resp'.req.body
             gen == Coalesce(body.generatorId, old.generatorId)
             date == Coalesce(body.date, old.date)
         IN  IF \E p \in productions :
                    p.id # old.id /\ p.generatorId = gen /\ p.date = date
             THEN resp'.err = "unique_violation" /\ productions' = productions
             ELSE (body.generatorId = {old.generatorId} /\ body.date = {old.date}) =>
                      /\ resp'.err = "none"
                      /\ productions' \ {p \in productions' : p.id = old.id} =
                             productions \ {old}]_vars

(* C21 witness: an update onto another record's pair was just refused, and *)
(* both records are there.                                                 *)
C21_Witness ==
    /\ resp.op = "UpdateProduction" /\ resp.err = "unique_violation"
    /\ Cardinality(productions) > 1
    /\ \E p \in productions : p.id = resp.req.id

(* C22: a get, update or delete whose path id is no UUID, and a list whose *)
(* typeId or generatorId filter is no UUID, is answered 400 by the handler *)
(* itself, without a repository call, and leaves the three tables as they  *)
(* were.                                                                   *)
ByPathId ==
    {"GetByID", "UpdateType", "DeleteType", "UpdateGenerator", "DeleteGenerator",
     "UpdateProduction", "DeleteProduction"}

C22_IdThatIsNoUUIDIsBadRequest ==
    [][(\/ resp'.op \in ByPathId /\ resp'.req.id = BadId
        \/ resp'.op = "GetAllGenerators" /\ resp'.req.typeId = {BadId}
        \/ resp'.op = "GetAllProductions" /\ resp'.req.generatorId = {BadId}) =>
         /\ resp'.status = StatusBadRequest /\ resp'.err = "bind"
         /\ resp'.op \in {"GetAllGenerators", "GetAllProductions"} => ~resp'.queried
         /\ types' = types /\ generators' = generators /\ productions' = productions]_vars

(* C22 witness: a delete with such an id was just answered 400 over a      *)
(* store that holds rows.                                                  *)
C22_Witness ==
    /\ resp.op = "DeleteProduction" /\ resp.req.id = BadId
    /\ resp.status = StatusBadRequest
    /\ productions # {} /\ generators # {} /\ types # {}

(* The dates inside the range of the last query that hold a Production     *)
(* record.                                                                 *)
RequestedDates == {p.date : p \in UNION {Requested(g) : g \in generators}}

(* C23: total-production-by-date answers with exactly one row for each     *)
(* date of the range that holds at least one Production record, no row for *)
(* any other date, and the rows in strictly descending date order.         *)
C23_TotalProductionOneRowPerDate ==
    resp.op = "get_total_production_by_date_range" =>
      /\ resp.err = "none"
      /\ {resp.rows[i].date : i \in DOMAIN resp.rows} = RequestedDates
      /\ Len(resp.rows) = Cardinality(RequestedDates)
      /\ \A i, j \in DOMAIN resp.rows : i < j => resp.rows[i].date > resp.rows[j].date

(* C23 witness: a query over all three days answered two rows, with a day  *)
(* without records between them.                                           *)
C23_Witness ==
    /\ resp.op = "get_total_production_by_date_range"
    /\ resp.req.start = 1 /\ resp.req.end = {3}
    /\ Len(resp.rows) = 2
    /\ ~\E p \in productions : p.date = 2

(* C24: generator-efficiency answers with exactly one row for every        *)
(* Generator of the store, those without a Production row in the range     *)
(* included, and the total production of a row is the sum over that        *)
(* generator's rows inside the range only.                                 *)
C24_EfficiencyOneRowPerGenerator ==
    resp.op = "get_generator_efficiency" =>
      /\ resp.err = "none"
      /\ Len(resp.rows) = Cardinality(generators)
      /\ \A g \in generators :
            \E i \in DOMAIN resp.rows :
               /\ resp.rows[i].generator_id = g.id
               /\ resp.rows[i].total_production \in {{}, {SumMW(Requested(g))}}
               /\ Requested(g) # {} => resp.rows[i].total_production # {}

(* The Generators of a partition of the summary.                           *)
Partition(energy_type) ==
    {g \in generators : TypeOf(DB, g).isRenewable = (energy_type = "Renewable")}

RECURSIVE Capacity(_)
Capacity(gs) ==
    IF gs = {} THEN 0
    ELSE LET g == CHOOSE x \in gs : TRUE IN g.capacity + Capacity(gs \ {g})

(* C25: the renewable summary answers; each partition reports the number   *)
(* of its Generators and the sum of their capacities, each Generator       *)
(* counted once however many Production rows it has in the range; total    *)
(* and average production are 0, not null, when the partition has no row   *)
(* in the range.                                                           *)
C25_SummaryCountsEachGeneratorOnce ==
    resp.op = "get_renewable_summary" =>
      /\ resp.err = "none"
      /\ \A i \in DOMAIN resp.rows :
            LET row == resp.rows[i]
                gs == Partition(row.energy_type)
            IN  /\ row.generator_count = Cardinality(gs)
                /\ row.total_capacity = Capacity(gs)
                /\ (\A g \in gs : Requested(g) = {}) =>
                       row.total_production = 0 /\ row.avg_production.sum = 0

(* C26: GetAllProductions with well-formed filters answers exactly the     *)
(* Production records of the generator, when one is given, dated on or     *)
(* after the start date, when one is given, and on or before the end date, *)
(* when one is given, each record once; with no filter, every record.      *)
C26_ProductionListAppliesPresentFilters ==
    (/\ resp.op = "GetAllProductions"
     /\ BadDate \notin resp.req.startDate \cup resp.req.endDate
     /\ BadId \notin resp.req.generatorId) =>
       LET wanted == {p \in productions :
                        /\ resp.req.generatorId # {} =>
                               p.generatorId = Val(resp.req.generatorId)
                        /\ resp.req.startDate # {} => p.date >= Val(resp.req.startDate)
                        /\ resp.req.endDate # {} => p.date <= Val(resp.req.endDate)}
       IN  /\ resp.status = StatusOK
           /\ {resp.rows[i] : i \in DOMAIN resp.rows} = wanted
           /\ Len(resp.rows) = Cardinality(wanted)

(* C26 witness: a list with all three filters, start and end the same day, *)
(* answered one of the two records of the store.                           *)
C26_Witness ==
    /\ resp.op = "GetAllProductions" /\ resp.status = StatusOK
    /\ resp.req.generatorId # {} /\ resp.req.startDate # {}
    /\ resp.req.endDate = resp.req.startDate
    /\ Len(resp.rows) = 1 /\ Cardinality(productions) = 2

(* An update of session s and the delete last answered address one record. *)
Racing(s) ==
    /\ \/ sessions[s].op = "UpdateGenerator" /\ resp.op = "DeleteGenerator"
       \/ sessions[s].op = "UpdateProduction" /\ resp.op = "DeleteProduction"
    /\ resp.req.id = sessions[s].req.id

(* C27: when an UpdateGenerator or UpdateProduction and a delete of the    *)
(* same record run concurrently, in every order of the update's write, its *)
(* read and the delete, the update answers the updated record or NotFound, *)
(* the delete succeeds, and at the end the record does not exist.          *)
C27_UpdateRacingDeleteLeavesNoRecord ==
    /\ [](\A s \in Sessions :
            (/\ sessions[s].pc = "done" /\ sessions[s].err # "bind"
             /\ Racing(s) /\ resp.err = "none") =>
               /\ sessions[s].status \in {StatusOK, StatusNotFound}
               /\ ~\E row \in TableOf(resp.op) : row.id = resp.req.id)
    /\ [][\A s \in Sessions :
            (/\ sessions[s].pc \in {"written", "done"} /\ sessions[s].err = "none"
             /\ resp' # resp /\ Racing(s)'
             /\ \E row \in TableOf(resp'.op) : row.id = resp'.req.id) =>
               resp'.err = "none"]_vars

(* C27 witness: an UpdateProduction answered NotFound for a record that a  *)
(* concurrent delete removed.                                              *)
C27_Witness ==
    \E s \in Sessions :
        /\ sessions[s].pc = "done" /\ sessions[s].status = StatusNotFound
        /\ sessions[s].op = "UpdateProduction"
        /\ sessions[s].req.body.productionMW # {}
        /\ Racing(s) /\ resp.err = "none"

(* The answer of the query last asked, had it been asked with this end.    *)
WithEnd(end) ==
    CASE resp.op = "get_total_production_by_date_range" ->
            get_total_production_by_date_range(DB, resp.req.start, end)
      [] resp.op = "get_generator_efficiency" ->
            get_generator_efficiency(DB, resp.req.start, end)
      [] resp.op = "get_renewable_summary" ->
            get_renewable_summary(DB, resp.req.start, end)

(* C28: each of the three analytical queries, asked without an end date,   *)
(* answers what it answers with the current date as its end: the records   *)
(* dated today are counted and the records dated after today are not.      *)
C28_OmittedEndIsToday ==
    (/\ resp.op \in {"get_total_production_by_date_range",
                     "get_generator_efficiency", "get_renewable_summary"}
     /\ resp.req.end = {}) =>
       /\ resp.err = "none"
       /\ WithEnd({Today}).err = "none"
       /\ resp.rows \in WithEnd({Today}).rows
       /\ resp.op = "get_total_production_by_date_range" =>
             {resp.rows[i].date : i \in DOMAIN resp.rows} =
                {p.date : p \in {q \in productions :
                                    q.date >= resp.req.start /\ q.date <= Today}}

(* C29: in every state the create, update and delete endpoints reach,      *)
(* every Generator's typeId is the id of a Type and every Production's     *)
(* generatorId the id of a Generator; an UpdateGenerator or                *)
(* UpdateProduction of an existing record that supplies a typeId or        *)
(* generatorId of no record fails with the foreign-key error and changes   *)
(* nothing.                                                                *)
C29_ReferencesAlwaysResolve ==
    /\ [](/\ \A g \in generators : TypeExists(types, g.typeId)
          /\ \A p \in productions : GeneratorExists(generators, p.generatorId))
    /\ [][(/\ resp'.op \in {"UpdateGenerator", "UpdateProduction"} /\ Bound(resp')
           /\ \E row \in TableOf(resp'.op) : row.id = resp'.req.id
           /\ IF resp'.op = "UpdateGenerator"
              THEN /\ resp'.req.body.typeId # {}
                   /\ ~TypeExists(types, Val(resp'.req.body.typeId))
              ELSE /\ resp'.req.body.generatorId # {}
                   /\ ~GeneratorExists(generators, Val(resp'.req.body.generatorId))) =>
             /\ resp'.err = "foreign_key_violation"
             /\ types' = types /\ generators' = generators
             /\ productions' = productions]_vars

(* C29 witness: an UpdateGenerator to a typeId of no Type was just refused  *)
(* while the generator has a production.                                   *)
C29_Witness ==
    /\ resp.op = "UpdateGenerator" /\ resp.err = "foreign_key_violation"
    /\ ~TypeExists(types, Val(resp.req.body.typeId))
    /\ \E p \in productions : p.generatorId = resp.req.id

(* The Production records of date d whose generator's Type has the given   *)
(* isRenewable.                                                            *)
OfDay(d, isRenewable) ==
    {p \in productions :
        /\ p.date = d
        /\ \E g \in generators, t \in types :
              g.id = p.generatorId /\ t.id = g.typeId /\ t.isRenewable = isRenewable}

(* C30: in every row of total-production-by-date, total production is      *)
(* renewable production plus non-renewable production; renewable           *)
(* production is the sum of productionMW over the records of that date     *)
(* whose generator's Type is renewable, non-renewable production the sum   *)
(* over the other records of that date.                                    *)
C30_TotalIsRenewablePlusNonRenewable ==
    (resp.op = "get_total_production_by_date_range" /\ resp.err = "none") =>
      \A i \in DOMAIN resp.rows :
        LET row == resp.rows[i]
        IN  /\ row.total_production = row.renewable_production + row.non_renewable_production
            /\ row.renewable_production = SumMW(OfDay(row.date, TRUE))
            /\ row.non_renewable_production =
                 SumMW({p \in productions : p.date = row.date} \ OfDay(row.date, TRUE))

(* C30 witness: a row of a day with production of both kinds.              *)
C30_Witness ==
    /\ resp.op = "get_total_production_by_date_range" /\ resp.err = "none"
    /\ \E i \in DOMAIN resp.rows :
          /\ resp.rows[i].renewable_production > 0
          /\ resp.rows[i].non_renewable_production > 0

====
